---- MODULE Spec2Model ----
(***************************************************************************)
(* Model of the AURA-MF dashboard backend (src/app.py): the process-wide   *)
(* SimulationState (clock, fidelity history), its update() operation, the  *)
(* analytic temperature field, the residual and confidence diagnostics,    *)
(* and the request handlers that use them.                                 *)
(*                                                                         *)
(* Number representation (the source computes in binary floating point):   *)
(*   wall clock and simulation time   whole seconds                        *)
(*   temperatures after round(.,2)    hundredths of a degree Celsius       *)
(*   temperatures before rounding     1e-5 degree                          *)
(*   confidence before round(.,3)     1e-4,  after: thousandths            *)
(*   residual after round(.,8)        1e-8                                 *)
(* round() is modelled as round-half-even on these exact values, sqrt as   *)
(* the integer square root at the stated resolution.  The names time,      *)
(* random, datetime and render_template_string are used by the source      *)
(* without being imported; they are taken to be the standard ones.         *)
(***************************************************************************)
EXTENDS Integers, Sequences, FiniteSets, TLC

VARIABLES
    now,               \* the value time.time() returns (the wall clock)
    time,              \* sim_state.time
    last_update,       \* sim_state.last_update
    fidelity_history,  \* sim_state.fidelity_history
    response,          \* the response of the last request served
    returned,          \* history variable: every value update() has returned
    advanced_at,       \* history variable: wall clock read by the last update()
    unit_ticks,        \* history variable: every update() so far saw dt = 1.0
    handoffs,          \* history variable: what the last two simulate requests
                       \* handed to the field generator, and what came back
    pc,                \* per caller: position inside update()
    current_time,      \* per caller: local current_time of update()
    dt,                \* per caller: local dt of update()
    loaded,            \* per caller: value of self.time loaded by "+="
    new_fidelity       \* per caller: local new_fidelity of update()

vars == <<now, time, last_update, fidelity_history, response, returned,
          advanced_at, unit_ticks, handoffs, pc, current_time, dt, loaded,
          new_fidelity>>

state_vars == <<time, last_update, fidelity_history>>
ghost_vars == <<returned, advanced_at, unit_ticks, handoffs>>
caller_vars == <<pc, current_time, dt, loaded, new_fidelity>>

-----------------------------------------------------------------------------
(* Bounds of the model *)

\* the wall clock at startup
EpochStart == 7
\* wall-clock seconds that may pass after startup
MaxNow == 12
\* simulate requests served
MaxAdv == 2
\* the same two for the long runs that fill the history past its limit
MaxNowLong == 3
MaxAdvLong == 102
\* longest history handed to the confidence operation on its own
MaxHist == 11
\* largest side of a grid handed to the residual operation on its own
MaxGrid == 2
\* concurrent callers of update(), and seconds that pass while they run
NCallers == 2
MaxNowConc == 3

-----------------------------------------------------------------------------
(* Program constants *)

HistoryLimit == 100
CyclePeriod == 10
HighBelow == 3
MediumBelow == 7
WarmUp == 5
Window == 10
GridSize == 10
VariationPeriod == 20

Levels == {0, 1, 2}

\* sim_state.temperature_base, in hundredths of a degree
temperature_base == 4500

-----------------------------------------------------------------------------
(* Arithmetic helpers *)

Min(a, b) == IF a < b THEN a ELSE b
Max(a, b) == IF a > b THEN a ELSE b
Abs(a) == IF a < 0 THEN -a ELSE a

\* Python's round(): nearest multiple of d, ties to the even one.  x in units
\* u, result in units d*u.
RoundDiv(x, d) ==
    LET q == x \div d
        r == x % d
    IN  IF 2 * r < d THEN q
        ELSE IF 2 * r > d THEN q + 1
        ELSE IF q % 2 = 0 THEN q ELSE q + 1

RECURSIVE ISqrtIn(_, _, _)
ISqrtIn(x, lo, hi) ==
    IF lo >= hi THEN lo
    ELSE LET mid == (lo + hi + 1) \div 2
         IN  IF mid * mid <= x THEN ISqrtIn(x, mid, hi)
             ELSE ISqrtIn(x, lo, mid - 1)

\* floor of the square root (x ** 0.5)
ISqrt(x) == ISqrtIn(x, 0, Min(x, 46340))

\* sum(), min() and max() of a non-empty list, by halves
RECURSIVE SumIn(_, _, _)
SumIn(s, lo, hi) ==
    IF lo > hi THEN 0
    ELSE IF lo = hi THEN s[lo]
    ELSE LET mid == (lo + hi) \div 2
         IN  SumIn(s, lo, mid) + SumIn(s, mid + 1, hi)

SumSeq(s) == SumIn(s, 1, Len(s))

RECURSIVE MinIn(_, _, _)
MinIn(s, lo, hi) ==
    IF lo = hi THEN s[lo]
    ELSE LET mid == (lo + hi) \div 2
         IN  Min(MinIn(s, lo, mid), MinIn(s, mid + 1, hi))

MinSeq(s) == MinIn(s, 1, Len(s))

RECURSIVE MaxIn(_, _, _)
MaxIn(s, lo, hi) ==
    IF lo = hi THEN s[lo]
    ELSE LET mid == (lo + hi) \div 2
         IN  Max(MaxIn(s, lo, mid), MaxIn(s, mid + 1, hi))

MaxSeq(s) == MaxIn(s, 1, Len(s))

\* Python's s[-k:]
LastN(s, k) == IF Len(s) <= k THEN s ELSE SubSeq(s, Len(s) - k + 1, Len(s))

-----------------------------------------------------------------------------
(* SimulationState.update, statement by statement *)

\* dt = current_time - self.last_update
Elapsed(ct, lu) == ct - lu

\* self.time += dt
AddTime(t, d) == t + d

\* (variant for C6: the assignment is missing, last_update keeps its value)
NextLastUpdate_Stale(ct, lu) == lu

\* self.last_update = current_time
NextLastUpdate(ct, lu) == ct

\* if self.time % 10 < 3
TransientPhase(t) == t % CyclePeriod < HighBelow

\* elif self.time % 10 < 7
ModeratePhase(t) == t % CyclePeriod < MediumBelow

\* (variant for C2: the level is (time // 10) % 3, a cycle of period 30)
SelectFidelity_Period30(t) == (t \div CyclePeriod) % 3

\* the if / elif / else choosing new_fidelity from self.time
SelectFidelity(t) ==
    IF TransientPhase(t) THEN 2
    ELSE IF ModeratePhase(t) THEN 1
    ELSE 0

\* (variant for C3: the slice is [:100] and keeps the oldest entries)
Truncate_KeepFront(h) == SubSeq(h, 1, Min(Len(h), HistoryLimit))

\* self.fidelity_history[-100:]
Truncate(h) == LastN(h, HistoryLimit)

\* (variant for C10: the list is never truncated)
AppendHistory_NoTruncate(h, f) == Append(h, f)

\* append, then truncate when the list is longer than the limit
AppendHistory(h, f) ==
    LET a == Append(h, f)
    IN  IF Len(a) > HistoryLimit THEN Truncate(a) ELSE a

-----------------------------------------------------------------------------
(* generate_temperature_field *)

\* [5.0, 3.0, 1.0] and [2.0, 1.0, 0.5], in tenths of a degree
hotspot_intensity == <<50, 30, 10>>
noise_level == <<20, 10, 5>>

\* The draws of random.uniform(-noise_level, noise_level), one per cell, as a
\* fraction of noise_level: every cell at the lower end, at zero, at the upper
\* end, or alternating between the two ends.
NoisePatterns == {"low", "zero", "high", "mixed"}

NoiseFraction(p, i, j) ==
    CASE p = "low" -> -1
      [] p = "zero" -> 0
      [] p = "high" -> 1
      [] p = "mixed" -> IF (i + j) % 2 = 0 THEN 1 ELSE -1

\* 1000 * sqrt(D) for D = (2i - g)^2 + (2j - g)^2, so that
\* dist_from_center / (grid_size / 2) = sqrt(D) / grid_size
RootMilli == [D \in 0..(2 * GridSize * GridSize) |-> ISqrt(D * 1000000)]

\* (variant for C5: 1 + dist / (grid_size/2) in place of 1 - dist / (grid_size/2))
RadialTemp_SignSlip(grid_size, base_temp, fidelity, i, j) ==
    LET D == (2 * i - grid_size) * (2 * i - grid_size)
             + (2 * j - grid_size) * (2 * j - grid_size)
    IN  base_temp * 1000
        + (hotspot_intensity[fidelity + 1] * 10
           * (grid_size * 1000 + RootMilli[D])) \div grid_size

\* radial_temp, in 1e-5 degree
RadialTemp(grid_size, base_temp, fidelity, i, j) ==
    LET D == (2 * i - grid_size) * (2 * i - grid_size)
             + (2 * j - grid_size) * (2 * j - grid_size)
    IN  base_temp * 1000
        + (hotspot_intensity[fidelity + 1] * 10
           * (grid_size * 1000 - RootMilli[D])) \div grid_size

\* time_variation = 2.0 * abs(0.5 - (sim_state.time % 20) / 20), in 1e-5 degree
TimeVariation(t) ==
    (Abs(VariationPeriod - 2 * (t % VariationPeriod)) * 100000)
        \div VariationPeriod

\* final_temp of one cell, rounded to 2 decimals: hundredths of a degree
CellTemp(grid_size, base_temp, fidelity, p, t, i, j) ==
    RoundDiv(RadialTemp(grid_size, base_temp, fidelity, i, j)
             + NoiseFraction(p, i, j) * noise_level[fidelity + 1] * 10000
             + TimeVariation(t),
             1000)

\* (variant for C9: the level is read from the global sim_state.fidelity_history
\* as the request found it, 1 when empty, in place of the argument)
generate_temperature_field_ReadsHistory(grid_size, base_temp, fidelity, p, t) ==
    LET current_fidelity ==
            IF fidelity_history = <<>> THEN 1
            ELSE fidelity_history[Len(fidelity_history)]
    IN  [i \in 1..grid_size |->
            [j \in 1..grid_size |->
                CellTemp(grid_size, base_temp, current_fidelity, p, t, i - 1, j - 1)]]

\* the field: a list of grid_size rows of grid_size cells.  p stands for the
\* random draws and t for the global sim_state.time the function reads.
generate_temperature_field(grid_size, base_temp, fidelity, p, t) ==
    [i \in 1..grid_size |->
        [j \in 1..grid_size |->
            CellTemp(grid_size, base_temp, fidelity, p, t, i - 1, j - 1)]]

\* [t for row in temperature_field for t in row]
Flatten(field) ==
    LET g == Len(field[1])
    IN  [k \in 1..(Len(field) * g) |-> field[((k - 1) \div g) + 1][((k - 1) % g) + 1]]

-----------------------------------------------------------------------------
(* calculate_energy_residuals *)

\* (variant for C7: [1e-2, 1e-3, 1e-3])
base_residual_Repeated == <<1000000, 100000, 100000>>

\* [1e-2, 1e-3, 1e-5], in 1e-8
base_residual == <<1000000, 100000, 1000>>

\* std_temp, in hundredths of a degree (mean and root taken to the hundredth)
StdTemp(temps) ==
    LET avg_temp == SumSeq(temps) \div Len(temps)
        sq == [k \in 1..Len(temps) |-> (temps[k] - avg_temp) * (temps[k] - avg_temp)]
    IN  ISqrt(SumSeq(sq) \div Len(temps))

\* round(base_residual * (1 + std_temp / 100), 8), in 1e-8
calculate_energy_residuals(fidelity, temperature_field) ==
    LET std_temp == StdTemp(Flatten(temperature_field))
        b == base_residual[fidelity + 1]
    IN  b + RoundDiv(b * std_temp, 10000)

\* What simulate() computes from the fidelity f, the noise draws p and the
\* clock t it finds in sim_state: the field, its residual and its extremes.
\* generate_temperature_field reads the clock only as sim_state.time % 20, so
\* the results are tabulated once over f, p and t % 20.
FieldAndDiagnostics ==
    [f \in Levels |-> [p \in NoisePatterns |-> [m \in 0..(VariationPeriod - 1) |->
        LET temp_field == generate_temperature_field(
                              GridSize, temperature_base, f, p, m)
            temps == Flatten(temp_field)
        IN  [temperature_field |-> temp_field,
             energy_residuals |-> calculate_energy_residuals(f, temp_field),
             min_temp |-> MinSeq(temps),
             max_temp |-> MaxSeq(temps)]]]]

-----------------------------------------------------------------------------
(* calculate_ml_confidence *)

\* Values of random.uniform(-0.02, 0.02), in 1e-4: both ends and two values
\* that do not fall on a thousandth.
Jitters == {-200, -103, 107, 200}

\* sum(1 for i in range(len(recent)-1) if recent[i] != recent[i+1])
Switches(recent) ==
    Cardinality({i \in 1..(Len(recent) - 1) : recent[i] # recent[i + 1]})

\* (variant for C4: the result is rounded without being clamped)
calculate_ml_confidence_NoClamp(history, jitter) ==
    IF Len(history) < WarmUp THEN 850
    ELSE LET recent == LastN(history, Window)
         IN  RoundDiv(9500 - Switches(recent) * 200 + jitter, 10)

\* (variant for C8: the switches are counted over the whole history)
calculate_ml_confidence_WholeHistory(history, jitter) ==
    IF Len(history) < WarmUp THEN 850
    ELSE LET confidence == 9500 - Switches(history) * 200 + jitter
         IN  RoundDiv(Max(8000, Min(9900, confidence)), 10)

\* jitter stands for the random draw, which is made only past the warm-up.
\* Result in thousandths.
calculate_ml_confidence(history, jitter) ==
    IF Len(history) < WarmUp THEN 850
    ELSE LET recent == LastN(history, Window)
             confidence == 9500 - Switches(recent) * 200 + jitter
         IN  RoundDiv(Max(8000, Min(9900, confidence)), 10)

\* the draws calculate_ml_confidence makes for a history
JitterDraws(history, jitters) ==
    IF Len(history) < WarmUp THEN {0} ELSE jitters

-----------------------------------------------------------------------------
(* Start of the process: sim_state = SimulationState() *)

NoResponse == [kind |-> "none"]

Callers == 1..NCallers

InitState ==
    /\ now = EpochStart
    /\ time = 0
    /\ fidelity_history = <<>>
    /\ last_update = now
    /\ response = NoResponse
    /\ returned = <<>>
    /\ advanced_at = now
    /\ unit_ticks = TRUE
    /\ handoffs = <<>>

InitCallers ==
    /\ pc = [c \in Callers |-> "idle"]
    /\ current_time = [c \in Callers |-> 0]
    /\ dt = [c \in Callers |-> 0]
    /\ loaded = [c \in Callers |-> 0]
    /\ new_fidelity = [c \in Callers |-> 0]

Init == InitState /\ InitCallers

-----------------------------------------------------------------------------
(* Requests served one at a time *)

\* the wall clock moves on between requests
Tick(maxNow) ==
    /\ now < EpochStart + maxNow
    /\ now' = now + 1
    /\ UNCHANGED <<state_vars, response, ghost_vars, caller_vars>>

\* GET /api/simulate: update(), then the field, the residual, the confidence
\* and the response
Simulate(maxAdv, noises, jitters) ==
    /\ Len(returned) < maxAdv
    /\ LET d == Elapsed(now, last_update)
           t == AddTime(time, d)
           f == SelectFidelity(t)
           h == AppendHistory(fidelity_history, f)
       IN  \E p \in noises, j \in JitterDraws(h, jitters) :
             LET out == FieldAndDiagnostics[f][p][t % VariationPeriod]
                 temp_field == out.temperature_field
             IN  /\ time' = t
                 /\ last_update' = NextLastUpdate(now, last_update)
                 /\ fidelity_history' = h
                 /\ response' =
                      [kind |-> "simulate",
                       temperature_field |-> temp_field,
                       fidelity_level |-> f,
                       energy_residuals |-> out.energy_residuals,
                       ml_confidence |-> calculate_ml_confidence(h, j),
                       timestamp |-> t,
                       min_temp |-> out.min_temp,
                       max_temp |-> out.max_temp,
                       total_fidelity_switches |-> Len(h)]
                 /\ returned' = Append(returned, f)
                 /\ advanced_at' = now
                 /\ unit_ticks' = (unit_ticks /\ d = 1)
                 /\ handoffs' = LastN(Append(handoffs,
                                   [fidelity |-> f, base_temp |-> temperature_base,
                                    draws |-> p, clock |-> t, history |-> h,
                                    field |-> temp_field]), 2)
    /\ UNCHANGED <<now, caller_vars>>

\* GET /api/health
health_check ==
    /\ response' = [kind |-> "health",
                    simulation_time |-> time,
                    fidelity_switches |-> Len(fidelity_history)]
    /\ UNCHANGED <<now, state_vars, ghost_vars, caller_vars>>

\* GET /: the handler reads MAIL_PASSWORD, a name the module never binds, so
\* it raises and the 500 handler answers
index ==
    /\ response' = [kind |-> "error", code |-> 500]
    /\ UNCHANGED <<now, state_vars, ghost_vars, caller_vars>>

\* POST and OPTIONS /api/contact
contact ==
    /\ \E method \in {"OPTIONS", "POST"}, website_hp \in BOOLEAN, is_valid \in BOOLEAN :
         response' =
           [kind |-> "contact",
            code |-> IF method = "OPTIONS" THEN 204
                     ELSE IF website_hp THEN 200
                     ELSE IF ~is_valid THEN 400
                     ELSE 500]
    /\ UNCHANGED <<now, state_vars, ghost_vars, caller_vars>>

Next ==
    \/ Tick(MaxNow)
    \/ Simulate(MaxAdv, NoisePatterns, Jitters)
    \/ health_check
    \/ index
    \/ contact

Spec == Init /\ [][Next]_vars

\* the same program run long enough to fill the history past its limit
NextLong ==
    \/ Tick(MaxNowLong)
    \/ Simulate(MaxAdvLong, {"zero"}, {-200, 107})
    \/ health_check

SpecLong == Init /\ [][NextLong]_vars

-----------------------------------------------------------------------------
(* calculate_ml_confidence on its own, over every history up to MaxHist *)

Histories == UNION {[1..n -> Levels] : n \in 0..MaxHist}

InitConfidence ==
    /\ fidelity_history \in Histories
    /\ now = EpochStart
    /\ time = 0
    /\ last_update = now
    /\ response = NoResponse
    /\ returned = <<>>
    /\ advanced_at = now
    /\ unit_ticks = TRUE
    /\ handoffs = <<>>
    /\ InitCallers

Confidence ==
    /\ response.kind = "none"
    /\ \E j \in JitterDraws(fidelity_history, Jitters) :
         response' = [kind |-> "confidence",
                      jitter |-> j,
                      ml_confidence |-> calculate_ml_confidence(fidelity_history, j)]
    /\ UNCHANGED <<now, state_vars, ghost_vars, caller_vars>>

SpecConfidence == InitConfidence /\ [][Confidence]_vars

-----------------------------------------------------------------------------
(* calculate_energy_residuals on its own, over small grids *)

TempSamples == {4093, 4500, 5300}

Grids ==
    UNION {[1..r -> [1..c -> TempSamples]] : r \in 1..MaxGrid, c \in 1..MaxGrid}

InitResiduals ==
    /\ \E g \in Grids : response = [kind |-> "grid", temperature_field |-> g]
    /\ now = EpochStart
    /\ time = 0
    /\ fidelity_history = <<>>
    /\ last_update = now
    /\ returned = <<>>
    /\ advanced_at = now
    /\ unit_ticks = TRUE
    /\ handoffs = <<>>
    /\ InitCallers

EnergyResiduals ==
    /\ response.kind = "grid"
    /\ response' =
         [kind |-> "residuals",
          temperature_field |-> response.temperature_field,
          by_level |-> [l \in Levels |->
                          calculate_energy_residuals(l, response.temperature_field)]]
    /\ UNCHANGED <<now, state_vars, ghost_vars, caller_vars>>

SpecResiduals == InitResiduals /\ [][EnergyResiduals]_vars

-----------------------------------------------------------------------------
(* update() called by several request threads at once.  The source takes   *)
(* no lock, so the threads interleave between the reads and writes of      *)
(* sim_state's attributes; each action below is one such read or write.    *)

\* current_time = time.time()
ReadClock(c) ==
    /\ pc[c] = "idle"
    /\ current_time' = [current_time EXCEPT ![c] = now]
    /\ pc' = [pc EXCEPT ![c] = "l73"]
    /\ UNCHANGED <<now, state_vars, response, ghost_vars, dt, loaded, new_fidelity>>

\* dt = current_time - self.last_update
ReadLastUpdate(c) ==
    /\ pc[c] = "l73"
    /\ dt' = [dt EXCEPT ![c] = Elapsed(current_time[c], last_update)]
    /\ pc' = [pc EXCEPT ![c] = "l74_load"]
    /\ UNCHANGED <<now, state_vars, response, ghost_vars, current_time, loaded,
                   new_fidelity>>

\* self.time += dt, the load of self.time
LoadTime(c) ==
    /\ pc[c] = "l74_load"
    /\ loaded' = [loaded EXCEPT ![c] = time]
    /\ pc' = [pc EXCEPT ![c] = "l74_store"]
    /\ UNCHANGED <<now, state_vars, response, ghost_vars, current_time, dt,
                   new_fidelity>>

\* self.time += dt, the store to self.time
StoreTime(c) ==
    /\ pc[c] = "l74_store"
    /\ time' = AddTime(loaded[c], dt[c])
    /\ pc' = [pc EXCEPT ![c] = "l75"]
    /\ UNCHANGED <<now, last_update, fidelity_history, response, ghost_vars,
                   current_time, dt, loaded, new_fidelity>>

\* self.last_update = current_time
StoreLastUpdate(c) ==
    /\ pc[c] = "l75"
    /\ last_update' = NextLastUpdate(current_time[c], last_update)
    /\ pc' = [pc EXCEPT ![c] = "l82"]
    /\ UNCHANGED <<now, time, fidelity_history, response, ghost_vars,
                   current_time, dt, loaded, new_fidelity>>

\* if self.time % 10 < 3: new_fidelity = 2
TestTransient(c) ==
    /\ pc[c] = "l82"
    /\ IF TransientPhase(time)
         THEN /\ new_fidelity' = [new_fidelity EXCEPT ![c] = 2]
              /\ pc' = [pc EXCEPT ![c] = "l89"]
         ELSE /\ new_fidelity' = new_fidelity
              /\ pc' = [pc EXCEPT ![c] = "l84"]
    /\ UNCHANGED <<now, state_vars, response, ghost_vars, current_time, dt, loaded>>

\* elif self.time % 10 < 7: new_fidelity = 1, else: new_fidelity = 0
TestModerate(c) ==
    /\ pc[c] = "l84"
    /\ new_fidelity' = [new_fidelity EXCEPT ![c] = IF ModeratePhase(time) THEN 1 ELSE 0]
    /\ pc' = [pc EXCEPT ![c] = "l89"]
    /\ UNCHANGED <<now, state_vars, response, ghost_vars, current_time, dt, loaded>>

\* self.fidelity_history.append(new_fidelity)
AppendFidelity(c) ==
    /\ pc[c] = "l89"
    /\ fidelity_history' = Append(fidelity_history, new_fidelity[c])
    /\ pc' = [pc EXCEPT ![c] = "l90"]
    /\ UNCHANGED <<now, time, last_update, response, ghost_vars, current_time, dt,
                   loaded, new_fidelity>>

\* the length test, the truncation and return new_fidelity
TruncateAndReturn(c) ==
    /\ pc[c] = "l90"
    /\ fidelity_history' =
         IF Len(fidelity_history) > HistoryLimit
           THEN Truncate(fidelity_history) ELSE fidelity_history
    /\ returned' = Append(returned, new_fidelity[c])
    /\ pc' = [pc EXCEPT ![c] = "done"]
    /\ UNCHANGED <<now, time, last_update, response, advanced_at, unit_ticks,
                   handoffs, current_time, dt, loaded, new_fidelity>>

NextConcurrent ==
    \/ Tick(MaxNowConc)
    \/ \E c \in Callers :
         \/ ReadClock(c)
         \/ ReadLastUpdate(c)
         \/ LoadTime(c)
         \/ StoreTime(c)
         \/ StoreLastUpdate(c)
         \/ TestTransient(c)
         \/ TestModerate(c)
         \/ AppendFidelity(c)
         \/ TruncateAndReturn(c)

SpecConcurrent == Init /\ [][NextConcurrent]_vars

-----------------------------------------------------------------------------
(* Claims *)

AllDone == \A c \in Callers : pc[c] = "done"

\* C1: once each of the N concurrent callers has run update() once, the
\* history holds exactly N new entries and the clock has grown by exactly
\* the sum of the callers' increments dt, under every interleaving.
C1_ConcurrentAdvanceSafe ==
    AllDone =>
        /\ Len(fidelity_history) = NCallers
        /\ time = SumSeq([c \in Callers |-> dt[c]])

\* C2 as stated: with the clock advancing 1.0 per tick from 0, update()
\* returns (time // 10) % 3, time being the clock after the increment.
C2_CycleOfPeriod30 ==
    (unit_ticks /\ returned # <<>>) =>
        returned[Len(returned)] = (time \div 10) % 3

\* C2 amended: update() returns High (2) when time % 10 < 3, Medium (1) when
\* 3 <= time % 10 < 7 and Low (0) when time % 10 >= 7, time being the clock
\* after the increment.
C2_CycleOfPeriod10 ==
    returned # <<>> =>
        LET m == time % 10
            r == returned[Len(returned)]
        IN  /\ (m < 3 => r = 2)
            /\ (3 <= m /\ m < 7 => r = 1)
            /\ (m >= 7 => r = 0)
            /\ (response.kind = "simulate" =>
                  response.fidelity_level = r /\ response.timestamp = time)

\* two advances, the first returning Medium and the second Low
C2_Witness ==
    /\ Len(returned) = 2
    /\ returned = <<1, 0>>
    /\ time % 10 >= 7

\* C3: the history holds at most 100 entries and is exactly the last
\* min(k, 100) of the k values update() has returned, in order.
C3_HistoryIsLastReturned ==
    LET k == Len(returned)
        n == IF k < 100 THEN k ELSE 100
    IN  /\ Len(fidelity_history) = n
        /\ \A i \in 1..n : fidelity_history[i] = returned[k - n + i]

\* more than 100 advances, and the entry dropped from the front differs from
\* the one now at the front
C3_Witness ==
    /\ Len(returned) > 100
    /\ Len(fidelity_history) = 100
    /\ fidelity_history[1] # returned[1]

\* C4: the confidence operation returns a value in [0.80, 0.99], on its own
\* and as the ml_confidence of a simulate response.
C4_ConfidenceBounds ==
    response.kind \in {"confidence", "simulate"} =>
        (800 <= response.ml_confidence /\ response.ml_confidence <= 990)

\* nine switches in the window and the lowest jitter: the lower clamp acts
C4_Witness ==
    /\ response.kind = "confidence"
    /\ Len(fidelity_history) >= 10
    /\ Switches(LastN(fidelity_history, 10)) = 9
    /\ response.jitter = -200
    /\ response.ml_confidence = 800

\* the values of the cells of a field
CellValues(field) ==
    {field[i][j] : i \in 1..Len(field), j \in 1..Len(field[1])}

C7_ResidualOrdering ==
    response.kind = "residuals" =>
        /\ response.by_level[0] > response.by_level[1]
        /\ response.by_level[1] > response.by_level[2]

\* a grid whose cells differ, so that the deviation term is not zero
C7_Witness ==
    /\ response.kind = "residuals"
    /\ Len(response.temperature_field) = 2
    /\ response.temperature_field[1][1] # response.temperature_field[2][1]
    /\ response.by_level[2] > 1000

\* number of adjacent pairs that differ among the last 10 entries of h
WindowSwitches(h) ==
    LET n == Len(h)
        first == IF n > 10 THEN n - 9 ELSE 1
    IN  Cardinality({i \in first..(n - 1) : h[i] # h[i + 1]})

\* clamp(0.95 - 0.02 * s + j, 0.80, 0.99), in 1e-4
ClampedConfidence(s, j) ==
    LET c == 9500 - 200 * s + j
    IN  IF c < 8000 THEN 8000 ELSE IF c > 9900 THEN 9900 ELSE c

\* C8 as stated: below 5 entries the result is 0.85; from 5 entries on it is
\* clamp(0.95 - 0.02 * s + j, 0.80, 0.99) itself.
C8_ConfidenceIsClamp ==
    response.kind = "confidence" =>
        10 * response.ml_confidence =
            IF Len(fidelity_history) < 5 THEN 8500
            ELSE ClampedConfidence(WindowSwitches(fidelity_history), response.jitter)

\* C8 amended: below 5 entries the result is 0.85 with no jitter; from 5
\* entries on it is clamp(0.95 - 0.02 * s + j, 0.80, 0.99) rounded to 3
\* decimals, s counting the differing adjacent pairs of the last 10 entries
\* only (0 <= s <= 9).
C8_ConfidenceIsRoundedClamp ==
    response.kind = "confidence" =>
        LET s == WindowSwitches(fidelity_history)
            v == ClampedConfidence(s, response.jitter)
        IN  /\ 0 <= s /\ s <= 9
            /\ IF Len(fidelity_history) < 5
                 THEN response.ml_confidence = 850 /\ response.jitter = 0
                 ELSE /\ 10 * response.ml_confidence - v < 5
                      /\ v - 10 * response.ml_confidence < 5

\* eleven entries, the only switch among the two oldest: it is not counted
C8_Witness ==
    /\ response.kind = "confidence"
    /\ Len(fidelity_history) = 11
    /\ fidelity_history[1] # fidelity_history[2]
    /\ WindowSwitches(fidelity_history) = 0
    /\ response.jitter = 107
    /\ response.ml_confidence = 961

SameHandoff(a, b) ==
    /\ a.fidelity = b.fidelity
    /\ a.base_temp = b.base_temp
    /\ a.draws = b.draws

C10_SwitchCountersCountAdvances ==
    LET n == IF Len(returned) < 100 THEN Len(returned) ELSE 100
    IN  /\ (response.kind = "simulate" => response.total_fidelity_switches = n)
        /\ (response.kind = "health" => response.fidelity_switches = n)

\* past 100 advances with a single change of level: the counter reads 100
C10_Witness ==
    /\ response.kind = "health"
    /\ Len(returned) > 100
    /\ response.fidelity_switches = 100
    /\ Switches(returned) = 1

====
